---- MODULE Spec2Model ----
(***************************************************************************)
(* Model of the Hangul composer of package jamo (src/unnamed/part_000):    *)
(* ComposeHangul / composer.read / composer.write / composer.Compose /     *)
(* analyzeHangul, together with the functions of the imported library      *)
(* github.com/suapapa/go_hangul that the composer calls (IsHangul,         *)
(* IsJaeum, IsMoeum, Split, Join); and of the dictionary transliterator    *)
(* of package english (src/translit/english/english.go): loadDictionary,   *)
(* Transliterate and the sync.Once that guards the package-level dict.     *)
(*                                                                         *)
(* Codepoints are modelled by their Unicode scalar values (integers), so   *)
(* that Split and Join are the real arithmetic and not an identity.        *)
(*   0x3131..0x314E  compatibility consonants (Jaeum)   12593..12622       *)
(*   0x314F..0x3163  compatibility vowels (Moeum)       12623..12643       *)
(*   0x1100..0x1112  conjoining leads                    4352..4370        *)
(*   0x1161..0x1175  conjoining medials                  4449..4469        *)
(*   0x11A8..0x11C2  conjoining tails                    4520..4546        *)
(*   0xAC00..0xD7A3  precomposed syllables              44032..55203       *)
(***************************************************************************)
EXTENDS Integers, Sequences, FiniteSets

VARIABLES
    word,       \* the argument of ComposeHangul, a sequence of codepoints
    pos,        \* c.r: number of codepoints of word already consumed
    buf,        \* c.buf: the output buffer, a sequence of codepoints
    lmt,        \* c.lmt: buffered Jamos, indexed lead/medial/tail
    score,      \* local variable score of Compose
    prevScore,  \* local variable prevScore of Compose
    pc,         \* position in Compose: "loop", "final" (after break), "done"
    iter,       \* number of loop iterations started so far
    last,       \* what the most recent step did (history of the run)
    dict,       \* package english: var dict (the empty function when nil)
    onceDone,   \* package english: once.done
    onceM,      \* package english: once.m, 0 when free, else the holder
    loads,      \* number of assignments to dict so far
    tpc,        \* per call of Transliterate: its position
    tin,        \* per call of Transliterate: its argument
    tout,       \* per call of Transliterate: its results
    tearly      \* per call: the lookups ran before any load had completed

cvars == <<word, pos, buf, lmt, score, prevScore, pc, iter, last>>

tvars == <<dict, onceDone, onceM, loads, tpc, tin, tout, tearly>>

vars == <<cvars, tvars>>

(***************************************************************************)
(* Bounds of the model.                                                    *)
(***************************************************************************)
MaxLen == 4

MaxSyl == 2

MaxLiveLen == 3

MaxInput == 3

NProcs == 2

(***************************************************************************)
(* The codepoints the bounded inputs are drawn from: consonants that are   *)
(* valid both as lead and as tail (the null-onset U+3147 among them), two  *)
(* vowels (the filler U+3161 among them), two precomposed syllables (one   *)
(* with the null-onset lead and a tail), the hyphen, and two non-Hangul    *)
(* characters.                                                             *)
(***************************************************************************)
Consonants == {12593, 12596, 12615}      \* U+3131, U+3134, U+3147

ShortConsonants == {12593, 12615}        \* U+3131, U+3147

Vowels == {12623, 12641}                 \* U+314F, U+3161

Syllables == {44032, 50504}              \* U+AC00, U+C548

NonHangul == {97, 98}                    \* "a", "b"

(***************************************************************************)
(* Program constants.                                                      *)
(***************************************************************************)
lead == 0

medial == 1

tail == 2

Hyphen == 45

Ieung == 12615

Eu == 12641

EmptyLmt == [i \in 0..2 |-> 0]

(***************************************************************************)
(* Go integer arithmetic: / truncates toward zero, % takes the sign of the *)
(* dividend.                                                               *)
(***************************************************************************)
GoDiv(a, b) == IF a >= 0 THEN a \div b ELSE -((-a) \div b)

GoMod(a, b) == a - b * GoDiv(a, b)

(***************************************************************************)
(* Library tables: the compatibility consonants that are leads (19, index  *)
(* 0..18 in order) and tails (27, index 1..27 in order).                   *)
(***************************************************************************)
CompatLeads ==
    <<12593, 12594, 12596, 12599, 12600, 12601, 12609, 12610, 12611, 12613,
      12614, 12615, 12616, 12617, 12618, 12619, 12620, 12621, 12622>>

CompatTails ==
    <<12593, 12594, 12595, 12596, 12597, 12598, 12599, 12601, 12602, 12603,
      12604, 12605, 12606, 12607, 12608, 12609, 12610, 12612, 12613, 12614,
      12615, 12616, 12618, 12619, 12620, 12621, 12622>>

IndexIn(seq, x) == CHOOSE i \in 1..Len(seq) : seq[i] = x

InSeq(seq, x) == \E i \in 1..Len(seq) : seq[i] = x

IsSyllable(r) == 44032 <= r /\ r <= 55203

IsJaeum(r) ==
    \/ 12593 <= r /\ r <= 12622
    \/ 4352 <= r /\ r <= 4370
    \/ 4520 <= r /\ r <= 4546

IsMoeum(r) ==
    \/ 12623 <= r /\ r <= 12643
    \/ 4449 <= r /\ r <= 4469

IsHangul(r) == IsSyllable(r) \/ IsJaeum(r) \/ IsMoeum(r)

(***************************************************************************)
(* hangul.Split: the offset arithmetic on c - 0xAC00, applied to whatever  *)
(* rune it is given; the parts are conjoining Jamo (0x1100 + lead index,   *)
(* 0x1161 + vowel index, 0x11A7 + tail index, or 0 for no tail).           *)
(***************************************************************************)
\* Variant of Split: the tail offset is 0x11A8 instead of 0x11A7.
SplitTailOffByOne(c) ==
    LET d == c - 44032
        t == GoMod(d, 28)
        m == GoDiv(GoMod(d - t, 588), 28)
        l == GoDiv(d, 588)
    IN  <<l + 4352, m + 4449, IF t /= 0 THEN t + 4520 ELSE 0>>

Split(c) ==
    LET d == c - 44032
        t == GoMod(d, 28)
        m == GoDiv(GoMod(d - t, 588), 28)
        l == GoDiv(d, 588)
    IN  <<l + 4352, m + 4449, IF t /= 0 THEN t + 4519 ELSE 0>>

(***************************************************************************)
(* hangul.Join: accepts conjoining Jamo and compatibility Jamo in each     *)
(* position, 0 as "no tail"; a Jamo that has no index in its position      *)
(* (a tail-only consonant as lead, a lead-only consonant as tail) makes    *)
(* the result U+FFFD.                                                      *)
(***************************************************************************)
leadIdx(l) ==
    IF 4352 <= l /\ l <= 4370 THEN l - 4352
    ELSE IF InSeq(CompatLeads, l) THEN IndexIn(CompatLeads, l) - 1
    ELSE -1

medialIdx(m) ==
    IF 4449 <= m /\ m <= 4469 THEN m - 4449
    ELSE IF 12623 <= m /\ m <= 12643 THEN m - 12623
    ELSE -1

\* Variant of tailIdx: compatibility tails counted from 0.
tailIdxZeroBased(t) ==
    IF t = 0 THEN 0
    ELSE IF 4520 <= t /\ t <= 4546 THEN t - 4519
    ELSE IF InSeq(CompatTails, t) THEN IndexIn(CompatTails, t) - 1
    ELSE -1

tailIdx(t) ==
    IF t = 0 THEN 0
    ELSE IF 4520 <= t /\ t <= 4546 THEN t - 4519
    ELSE IF InSeq(CompatTails, t) THEN IndexIn(CompatTails, t)
    ELSE -1

\* Variant of Join: the tail index is left out of the sum.
JoinNoTail(l, m, t) ==
    IF leadIdx(l) < 0 \/ medialIdx(m) < 0 \/ tailIdx(t) < 0 THEN 65533
    ELSE 44032 + (leadIdx(l) * 21 + medialIdx(m)) * 28

Join(l, m, t) ==
    IF leadIdx(l) < 0 \/ medialIdx(m) < 0 \/ tailIdx(t) < 0 THEN 65533
    ELSE 44032 + (leadIdx(l) * 21 + medialIdx(m)) * 28 + tailIdx(t)

(***************************************************************************)
(* analyzeHangul                                                           *)
(***************************************************************************)
analyzeHangul(ch) ==
    [isHangul   |-> IsHangul(ch),
     isJaeum    |-> IsHangul(ch) /\ IsJaeum(ch),
     isMoeum    |-> IsHangul(ch) /\ IsMoeum(ch),
     isComposed |-> IsHangul(ch) /\ ~IsJaeum(ch) /\ ~IsMoeum(ch)]

(***************************************************************************)
(* composer.read from reader position p: skips every hyphen, remembering   *)
(* that one was seen; at end of input returns (0, false, err).             *)
(***************************************************************************)
\* Variant of readFrom: the hyphen is returned like any other character.
readEcho(p, isTail) ==
    IF p >= Len(word)
    THEN [ch |-> 0, isTail |-> FALSE, err |-> TRUE, pos |-> p]
    ELSE [ch |-> word[p + 1], isTail |-> isTail, err |-> FALSE, pos |-> p + 1]

\* Variant of readFrom: the end of the input is not reported as an error.
RECURSIVE readNoErr(_, _)
readNoErr(p, isTail) ==
    IF p >= Len(word)
    THEN [ch |-> 0, isTail |-> FALSE, err |-> FALSE, pos |-> p]
    ELSE IF word[p + 1] = Hyphen
         THEN readNoErr(p + 1, TRUE)
         ELSE [ch |-> word[p + 1], isTail |-> isTail, err |-> FALSE, pos |-> p + 1]

RECURSIVE readFrom(_, _)
readFrom(p, isTail) ==
    IF p >= Len(word)
    THEN [ch |-> 0, isTail |-> FALSE, err |-> TRUE, pos |-> p]
    ELSE IF word[p + 1] = Hyphen
         THEN readFrom(p + 1, TRUE)
         ELSE [ch |-> word[p + 1], isTail |-> isTail, err |-> FALSE, pos |-> p + 1]

read == readFrom(pos, FALSE)

(***************************************************************************)
(* composer.write on buffer l and output b: the new output and buffer.     *)
(***************************************************************************)
\* Variant of write: no early return on an empty buffer.
writeNoEmptyCheck(b, l) ==
    LET ld == IF l[lead] = 0 THEN Ieung ELSE l[lead]
        md == IF l[medial] = 0 THEN Eu ELSE l[medial]
    IN  [buf |-> Append(b, Join(ld, md, l[tail])), lmt |-> EmptyLmt]

\* Variant of write: the missing medial is filled with U+314F.
writeFillA(b, l) ==
    IF l = EmptyLmt
    THEN [buf |-> b, lmt |-> l]
    ELSE LET ld == IF l[lead] = 0 THEN Ieung ELSE l[lead]
             md == IF l[medial] = 0 THEN 12623 ELSE l[medial]
         IN  [buf |-> Append(b, Join(ld, md, l[tail])), lmt |-> EmptyLmt]

write(b, l) ==
    IF l = EmptyLmt
    THEN [buf |-> b, lmt |-> l]
    ELSE LET ld == IF l[lead] = 0 THEN Ieung ELSE l[lead]
             md == IF l[medial] = 0 THEN Eu ELSE l[medial]
         IN  [buf |-> Append(b, Join(ld, md, l[tail])), lmt |-> EmptyLmt]


(***************************************************************************)
(* Package english.  Strings are sequences of character codes.             *)
(***************************************************************************)
Procs == 1..NProcs

NoResult == [out |-> <<>>, err |-> "none"]

\* No call of Transliterate is in progress and nothing is loaded.
TranslitIdle ==
    /\ dict = <<>>
    /\ onceDone = 0
    /\ onceM = 0
    /\ loads = 0
    /\ tpc = [p \in Procs |-> "idle"]
    /\ tin = [p \in Procs |-> <<>>]
    /\ tout = [p \in Procs |-> NoResult]
    /\ tearly = [p \in Procs |-> FALSE]

(***************************************************************************)
(* Inputs.                                                                 *)
(***************************************************************************)
Alphabet == ShortConsonants \cup Vowels \cup Syllables \cup NonHangul \cup {Hyphen}

\* Every word over the alphabet up to a length.
WordsUpTo(n) == UNION {[1..k -> Alphabet] : k \in 0..n}

ShortWords == WordsUpTo(MaxLen)

\* The decomposed form of one syllable: lead, vowel and, when t # 0, a
\* hyphen and the tail consonant.
Decomposed(l, m, t) == IF t = 0 THEN <<l, m>> ELSE <<l, m, Hyphen, t>>

RECURSIVE SyllableWordsOf(_)
SyllableWordsOf(n) ==
    IF n = 0 THEN {<<>>}
    ELSE LET shorter == SyllableWordsOf(n - 1)
         IN  shorter \cup
             {w \o Decomposed(l, m, t) :
                w \in shorter, l \in Consonants, m \in Vowels,
                t \in Consonants \cup {0}}

SyllableWords == SyllableWordsOf(MaxSyl)

\* Every compatibility consonant that is a lead, alone.
LeadWords == {<<CompatLeads[i]>> : i \in 1..Len(CompatLeads)}

\* Every compatibility consonant U+3131..U+314E: the 16 that are a lead and a
\* tail, the 3 that are a lead only and the 11 that are a tail only.
AllConsonants == 12593..12622

BothRoles == {c \in AllConsonants : InSeq(CompatLeads, c) /\ InSeq(CompatTails, c)}

\* Lead, vowel, then every consonant, with and without the marker.
MarkWords ==
    {<<12593, 12623, Hyphen, c>> : c \in AllConsonants} \cup
    {<<12593, 12623, c>> : c \in AllConsonants}

\* Every consonant alone, unmarked, marked, and followed by a non-Hangul
\* character.
SlotWords ==
    {<<c>> : c \in AllConsonants} \cup
    {<<Hyphen, c>> : c \in AllConsonants} \cup
    {<<c, 97>> : c \in AllConsonants}

\* The examples of the package and ComposeHangul documentation.
JamoExample == <<12616, 12623, 12609, 12631>>

HangulizeExample ==
    <<12622, 12623, Hyphen, 12596, 12593, 12641, Hyphen, 12601, 12601, 12623,
      12615, 12643, 12616, 12641>>

Words ==
    ShortWords \cup SyllableWords \cup LeadWords \cup MarkWords \cup SlotWords \cup
    {JamoExample, HangulizeExample}

(***************************************************************************)
(* ComposeHangul: a fresh composer over the word; the locals of Compose    *)
(* are zero.                                                               *)
(***************************************************************************)
Init ==
    /\ word \in Words
    /\ pos = 0
    /\ buf = <<>>
    /\ lmt = EmptyLmt
    /\ score = 0
    /\ prevScore = 0
    /\ pc = "loop"
    /\ iter = 0
    /\ last = [kind |-> "init", ch |-> 0, isTail |-> FALSE, wrote |-> FALSE,
               pre |-> EmptyLmt, preBuf |-> <<>>, cmp |-> 0]
    /\ TranslitIdle

\* Variant of attaches: the split lead is not compared with U+3147.
attachesAnyLead(r) ==
    /\ lmt[lead] /= 0
    /\ lmt[medial] = 0

\* The smart-attach pre-check of the loop, evaluated on what read returned
\* (also on the zero rune that comes with the end-of-stream error).
attaches(r) ==
    /\ lmt[lead] /= 0
    /\ lmt[medial] = 0
    /\ Split(r.ch)[1] = Ieung

\* The "continue" of the smart-attach pre-check: medial and tail are set from
\* the split parts, nothing is written, score is left as it was.
SmartAttach(r) ==
    /\ lmt' = [lmt EXCEPT ![medial] = Split(r.ch)[2], ![tail] = Split(r.ch)[3]]
    /\ buf' = buf
    /\ score' = score
    /\ prevScore' = score
    /\ pc' = "loop"
    /\ last' = [kind |-> "attach", ch |-> r.ch, isTail |-> r.isTail,
                wrote |-> FALSE, pre |-> lmt, preBuf |-> buf, cmp |-> score]

\* One loop iteration begins: prevScore = score, then read.
Entered ==
    /\ pc = "loop"
    /\ iter < Len(word) + 3
    /\ iter' = iter + 1
    /\ pos' = read.pos
    /\ word' = word
    /\ UNCHANGED tvars

\* The iteration in which read reports the end of the stream: break.
EndOfStream ==
    /\ Entered
    /\ read.err
    /\ IF attaches(read)
       THEN SmartAttach(read)
       ELSE /\ pc' = "final"
            /\ prevScore' = score
            /\ UNCHANGED <<buf, lmt, score>>
            /\ last' = [kind |-> "eof", ch |-> 0, isTail |-> FALSE,
                        wrote |-> FALSE, pre |-> lmt, preBuf |-> buf,
                        cmp |-> score]


\* Whether the non-Hangul branch calls write, prev being prevScore.
passFlushes(prev) == prev /= -1

\* The iteration on a non-Hangul character.
PassThrough ==
    /\ Entered
    /\ ~read.err
    /\ ~analyzeHangul(read.ch).isHangul
    /\ IF attaches(read)
       THEN SmartAttach(read)
       ELSE LET flush == passFlushes(score)
                w == IF flush THEN write(buf, lmt)
                     ELSE [buf |-> buf, lmt |-> lmt]
            IN  /\ buf' = Append(w.buf, read.ch)
                /\ lmt' = w.lmt
                /\ prevScore' = -1
                /\ score' = score
                /\ pc' = "loop"
                /\ last' = [kind |-> "nonhangul", ch |-> read.ch,
                            isTail |-> read.isTail, wrote |-> flush,
                            pre |-> lmt, preBuf |-> buf, cmp |-> score]

\* Variant of composedScore: the score of a composed syllable is medial.
composedScoreMedial == medial

\* The score assigned after a composed syllable.
composedScore == tail

\* The iteration on a precomposed syllable.
ComposedHangul ==
    /\ Entered
    /\ ~read.err
    /\ analyzeHangul(read.ch).isComposed
    /\ IF attaches(read)
       THEN SmartAttach(read)
       ELSE LET s == Split(read.ch)
                merge == lmt[lead] /= 0 /\ lmt[medial] = 0 /\ s[1] = Ieung
                w == write(buf, lmt)
            IN  /\ IF merge
                   THEN /\ lmt' = [lmt EXCEPT ![medial] = s[2], ![tail] = s[3]]
                        /\ buf' = buf
                   ELSE /\ lmt' = [i \in 0..2 |-> s[i + 1]]
                        /\ buf' = w.buf
                /\ score' = composedScore
                /\ prevScore' = score
                /\ pc' = "loop"
                /\ last' = [kind |-> "composed", ch |-> read.ch,
                            isTail |-> read.isTail, wrote |-> ~merge,
                            pre |-> lmt, preBuf |-> buf, cmp |-> score]

\* Variant of jamoScore: the tail mark is looked at before the vowel test.
jamoScoreMarkFirst(isMoeum, isTail) ==
    IF isTail THEN tail ELSE IF isMoeum THEN medial ELSE lead

\* Variant of jamoScore: the tail mark is ignored.
jamoScoreNoMark(isMoeum, isTail) ==
    IF isMoeum THEN medial ELSE lead

\* The score of a decomposed Jamo.
jamoScore(isMoeum, isTail) ==
    IF isMoeum THEN medial ELSE IF isTail THEN tail ELSE lead

\* Variant of flushes: strict comparison of the scores.
flushesStrict(sc, prev, l) ==
    /\ sc < prev
    /\ ~(sc = tail /\ prev = medial /\ l[tail] = 0)

\* Whether the buffered letter is flushed before a Jamo of score sc is
\* stored, prev being the previous score.
flushes(sc, prev, l) ==
    /\ sc <= prev
    /\ ~(sc = tail /\ prev = medial /\ l[tail] = 0)

\* The iteration on a decomposed Jamo.
DecomposedJamo ==
    /\ Entered
    /\ ~read.err
    /\ analyzeHangul(read.ch).isHangul
    /\ ~analyzeHangul(read.ch).isComposed
    /\ IF attaches(read)
       THEN SmartAttach(read)
       ELSE LET sc == jamoScore(analyzeHangul(read.ch).isMoeum, read.isTail)
                flush == flushes(sc, score, lmt)
                w == IF flush THEN write(buf, lmt)
                     ELSE [buf |-> buf, lmt |-> lmt]
            IN  /\ buf' = w.buf
                /\ lmt' = IF sc /= -1 THEN [w.lmt EXCEPT ![sc] = read.ch]
                          ELSE w.lmt
                /\ score' = sc
                /\ prevScore' = score
                /\ pc' = "loop"
                /\ last' = [kind |-> "jamo", ch |-> read.ch,
                            isTail |-> read.isTail, wrote |-> flush,
                            pre |-> lmt, preBuf |-> buf, cmp |-> score]

\* Variant of finalFlushes: the comparison with the sentinel is inverted.
finalFlushesInverted(prev) == prev = -1

\* Whether the final letter is written, prev being prevScore after the loop.
finalFlushes(prev) == prev /= -1

\* After the loop: write the final letter, return c.buf.String().
FinalWrite ==
    /\ pc = "final"
    /\ LET flush == finalFlushes(prevScore)
           w == IF flush THEN write(buf, lmt) ELSE [buf |-> buf, lmt |-> lmt]
       IN  /\ buf' = w.buf
           /\ lmt' = w.lmt
           /\ last' = [kind |-> "final", ch |-> 0, isTail |-> FALSE,
                       wrote |-> flush, pre |-> lmt, preBuf |-> buf,
                       cmp |-> prevScore]
    /\ pc' = "done"
    /\ UNCHANGED <<word, pos, score, prevScore, iter>>
    /\ UNCHANGED tvars

Next ==
    \/ EndOfStream
    \/ PassThrough
    \/ ComposedHangul
    \/ DecomposedJamo
    \/ FinalWrite

Spec == Init /\ [][Next]_vars

\* A call of Compose runs to its return: the loop is sequential code that is
\* always scheduled.
InitLive == Init /\ word \in WordsUpTo(MaxLiveLen)

FairSpec == InitLive /\ [][Next]_vars /\ WF_vars(Next)

(***************************************************************************)
(* Package english: the string functions Transliterate and loadDictionary  *)
(* call (strings.Fields, Trim, ToLower, Join, HasPrefix, SplitN, Replacer).*)
(***************************************************************************)
\* unicode.IsSpace: the White_Space property.
IsSpace(c) ==
    \/ c \in {9, 10, 11, 12, 13, 32, 133, 160}
    \/ c \in {5760, 8232, 8233, 8239, 8287, 12288}
    \/ 8192 <= c /\ c <= 8202

RECURSIVE FieldsFrom(_, _, _, _)
FieldsFrom(s, i, cur, acc) ==
    IF i > Len(s) THEN (IF cur = <<>> THEN acc ELSE Append(acc, cur))
    ELSE IF IsSpace(s[i])
         THEN FieldsFrom(s, i + 1, <<>>,
                         IF cur = <<>> THEN acc ELSE Append(acc, cur))
    ELSE FieldsFrom(s, i + 1, Append(cur, s[i]), acc)

Fields(s) == FieldsFrom(s, 1, <<>>, <<>>)

\* The cutset .,!?;:"'() of the Trim call.
CutSet == {46, 44, 33, 63, 59, 58, 34, 39, 40, 41}

RECURSIVE TrimLeft(_)
TrimLeft(w) ==
    IF w /= <<>> /\ w[1] \in CutSet THEN TrimLeft(Tail(w)) ELSE w

RECURSIVE TrimRight(_)
TrimRight(w) ==
    IF w /= <<>> /\ w[Len(w)] \in CutSet
    THEN TrimRight(SubSeq(w, 1, Len(w) - 1))
    ELSE w

Trim(w) == TrimRight(TrimLeft(w))

\* unicode.CaseRanges restricted to the mapping to lower case: every entry
\* <<lo, hi, stride, delta>> sends the runes lo, lo + stride, ... up to hi to
\* the rune delta further on.
LowerRanges ==
    <<
       <<65, 90, 1, 32>>, <<192, 214, 1, 32>>, <<216, 222, 1, 32>>,
       <<256, 302, 2, 1>>, <<304, 304, 1, -199>>, <<306, 310, 2, 1>>,
       <<313, 327, 2, 1>>, <<330, 374, 2, 1>>, <<376, 376, 1, -121>>,
       <<377, 381, 2, 1>>, <<385, 385, 1, 210>>, <<386, 388, 2, 1>>,
       <<390, 390, 1, 206>>, <<391, 391, 1, 1>>, <<393, 394, 1, 205>>,
       <<395, 395, 1, 1>>, <<398, 398, 1, 79>>, <<399, 399, 1, 202>>,
       <<400, 400, 1, 203>>, <<401, 401, 1, 1>>, <<403, 403, 1, 205>>,
       <<404, 404, 1, 207>>, <<406, 406, 1, 211>>, <<407, 407, 1, 209>>,
       <<408, 408, 1, 1>>, <<412, 412, 1, 211>>, <<413, 413, 1, 213>>,
       <<415, 415, 1, 214>>, <<416, 420, 2, 1>>, <<422, 422, 1, 218>>,
       <<423, 423, 1, 1>>, <<425, 425, 1, 218>>, <<428, 428, 1, 1>>,
       <<430, 430, 1, 218>>, <<431, 431, 1, 1>>, <<433, 434, 1, 217>>,
       <<435, 437, 2, 1>>, <<439, 439, 1, 219>>, <<440, 440, 1, 1>>,
       <<444, 444, 1, 1>>, <<452, 452, 1, 2>>, <<453, 453, 1, 1>>,
       <<455, 455, 1, 2>>, <<456, 456, 1, 1>>, <<458, 458, 1, 2>>,
       <<459, 475, 2, 1>>, <<478, 494, 2, 1>>, <<497, 497, 1, 2>>,
       <<498, 500, 2, 1>>, <<502, 502, 1, -97>>, <<503, 503, 1, -56>>,
       <<504, 542, 2, 1>>, <<544, 544, 1, -130>>, <<546, 562, 2, 1>>,
       <<570, 570, 1, 10795>>, <<571, 571, 1, 1>>, <<573, 573, 1, -163>>,
       <<574, 574, 1, 10792>>, <<577, 577, 1, 1>>, <<579, 579, 1, -195>>,
       <<580, 580, 1, 69>>, <<581, 581, 1, 71>>, <<582, 590, 2, 1>>,
       <<880, 882, 2, 1>>, <<886, 886, 1, 1>>, <<895, 895, 1, 116>>,
       <<902, 902, 1, 38>>, <<904, 906, 1, 37>>, <<908, 908, 1, 64>>,
       <<910, 911, 1, 63>>, <<913, 929, 1, 32>>, <<931, 939, 1, 32>>,
       <<975, 975, 1, 8>>, <<984, 1006, 2, 1>>, <<1012, 1012, 1, -60>>,
       <<1015, 1015, 1, 1>>, <<1017, 1017, 1, -7>>, <<1018, 1018, 1, 1>>,
       <<1021, 1023, 1, -130>>, <<1024, 1039, 1, 80>>, <<1040, 1071, 1, 32>>,
       <<1120, 1152, 2, 1>>, <<1162, 1214, 2, 1>>, <<1216, 1216, 1, 15>>,
       <<1217, 1229, 2, 1>>, <<1232, 1326, 2, 1>>, <<1329, 1366, 1, 48>>,
       <<4256, 4293, 1, 7264>>, <<4295, 4295, 1, 7264>>, <<4301, 4301, 1, 7264>>,
       <<5024, 5103, 1, 38864>>, <<5104, 5109, 1, 8>>, <<7312, 7354, 1, -3008>>,
       <<7357, 7359, 1, -3008>>, <<7680, 7828, 2, 1>>, <<7838, 7838, 1, -7615>>,
       <<7840, 7934, 2, 1>>, <<7944, 7951, 1, -8>>, <<7960, 7965, 1, -8>>,
       <<7976, 7983, 1, -8>>, <<7992, 7999, 1, -8>>, <<8008, 8013, 1, -8>>,
       <<8025, 8031, 2, -8>>, <<8040, 8047, 1, -8>>, <<8072, 8079, 1, -8>>,
       <<8088, 8095, 1, -8>>, <<8104, 8111, 1, -8>>, <<8120, 8121, 1, -8>>,
       <<8122, 8123, 1, -74>>, <<8124, 8124, 1, -9>>, <<8136, 8139, 1, -86>>,
       <<8140, 8140, 1, -9>>, <<8152, 8153, 1, -8>>, <<8154, 8155, 1, -100>>,
       <<8168, 8169, 1, -8>>, <<8170, 8171, 1, -112>>, <<8172, 8172, 1, -7>>,
       <<8184, 8185, 1, -128>>, <<8186, 8187, 1, -126>>, <<8188, 8188, 1, -9>>,
       <<8486, 8486, 1, -7517>>, <<8490, 8490, 1, -8383>>, <<8491, 8491, 1, -8262>>,
       <<8498, 8498, 1, 28>>, <<8544, 8559, 1, 16>>, <<8579, 8579, 1, 1>>,
       <<9398, 9423, 1, 26>>, <<11264, 11310, 1, 48>>, <<11360, 11360, 1, 1>>,
       <<11362, 11362, 1, -10743>>, <<11363, 11363, 1, -3814>>, <<11364, 11364, 1, -10727>>,
       <<11367, 11371, 2, 1>>, <<11373, 11373, 1, -10780>>, <<11374, 11374, 1, -10749>>,
       <<11375, 11375, 1, -10783>>, <<11376, 11376, 1, -10782>>, <<11378, 11378, 1, 1>>,
       <<11381, 11381, 1, 1>>, <<11390, 11391, 1, -10815>>, <<11392, 11490, 2, 1>>,
       <<11499, 11501, 2, 1>>, <<11506, 11506, 1, 1>>, <<42560, 42604, 2, 1>>,
       <<42624, 42650, 2, 1>>, <<42786, 42798, 2, 1>>, <<42802, 42862, 2, 1>>,
       <<42873, 42875, 2, 1>>, <<42877, 42877, 1, -35332>>, <<42878, 42886, 2, 1>>,
       <<42891, 42891, 1, 1>>, <<42893, 42893, 1, -42280>>, <<42896, 42898, 2, 1>>,
       <<42902, 42920, 2, 1>>, <<42922, 42922, 1, -42308>>, <<42923, 42923, 1, -42319>>,
       <<42924, 42924, 1, -42315>>, <<42925, 42925, 1, -42305>>, <<42926, 42926, 1, -42308>>,
       <<42928, 42928, 1, -42258>>, <<42929, 42929, 1, -42282>>, <<42930, 42930, 1, -42261>>,
       <<42931, 42931, 1, 928>>, <<42932, 42942, 2, 1>>, <<42946, 42946, 1, 1>>,
       <<42948, 42948, 1, -48>>, <<42949, 42949, 1, -42307>>, <<42950, 42950, 1, -35384>>,
       <<42951, 42953, 2, 1>>, <<42997, 42997, 1, 1>>, <<65313, 65338, 1, 32>>,
       <<66560, 66599, 1, 40>>, <<66736, 66771, 1, 40>>, <<68736, 68786, 1, 64>>,
       <<71840, 71871, 1, 32>>, <<93760, 93791, 1, 32>>, <<125184, 125217, 1, 34>>
    >>

\* unicode.ToLower: the rune moved by the delta of the range it falls in;
\* runes in no range stay as they are.
ToLowerRune(c) ==
    IF \E i \in 1..Len(LowerRanges) :
           /\ LowerRanges[i][1] <= c /\ c <= LowerRanges[i][2]
           /\ (c - LowerRanges[i][1]) % LowerRanges[i][3] = 0
    THEN LET i == CHOOSE i \in 1..Len(LowerRanges) :
                     /\ LowerRanges[i][1] <= c /\ c <= LowerRanges[i][2]
                     /\ (c - LowerRanges[i][1]) % LowerRanges[i][3] = 0
         IN  c + LowerRanges[i][4]
    ELSE c

ToLower(w) == [i \in 1..Len(w) |-> ToLowerRune(w[i])]

RECURSIVE JoinSpace(_)
JoinSpace(ws) ==
    IF ws = <<>> THEN <<>>
    ELSE IF Len(ws) = 1 THEN ws[1]
    ELSE ws[1] \o <<32>> \o JoinSpace(Tail(ws))

HasPrefix(line, pre) ==
    Len(line) >= Len(pre) /\ SubSeq(line, 1, Len(pre)) = pre

\* The two-space separator of a dictionary line and its first position.
SepAt(line, i) == i + 1 <= Len(line) /\ line[i] = 32 /\ line[i + 1] = 32

HasSep(line) == \E i \in 1..Len(line) : SepAt(line, i)

SepIndex(line) ==
    CHOOSE i \in 1..Len(line) :
        SepAt(line, i) /\ \A j \in 1..(i - 1) : ~SepAt(line, j)

\* The Replacer of loadDictionary: "0", "1", "2" and " " are removed.
KeptInPron(c) == c \notin {48, 49, 50, 32}

(***************************************************************************)
(* loadDictionary on the lines of the reader; the map is a function from   *)
(* lowercased words to pronunciations.                                     *)
(***************************************************************************)
RECURSIVE loadFrom(_, _, _)
loadFrom(lines, i, d) ==
    IF i > Len(lines) THEN d
    ELSE LET line == lines[i]
         IN  IF HasPrefix(line, <<59, 59, 59>>) \/ ~HasSep(line)
             THEN loadFrom(lines, i + 1, d)
             ELSE LET k == SepIndex(line)
                      w == ToLower(SubSeq(line, 1, k - 1))
                      pron == SelectSeq(SubSeq(line, k + 2, Len(line)), KeptInPron)
                  IN  loadFrom(lines, i + 1,
                               [x \in DOMAIN d \cup {w} |->
                                  IF x = w THEN pron ELSE d[x]])

loadDictionary(lines) == loadFrom(lines, 1, <<>>)

\* The embedded dictionary text, by lines: a comment line, two entries with
\* stress digits, and a line without the two-space separator.
\*   ";;;  A"   "A  AH0"   "AB  AE1 B"   "b B"
cmudict ==
    << <<59, 59, 59, 32, 32, 65>>,
       <<65, 32, 32, 65, 72, 48>>,
       <<65, 66, 32, 32, 65, 69, 49, 32, 66>>,
       <<98, 32, 66>> >>

(***************************************************************************)
(* Transliterate: the loop over the words of the argument.                 *)
(***************************************************************************)
cleanWord(w) == ToLower(Trim(w))

\* Variant of missResult: the cleaned word is passed through.
missResultClean(w, clean) == clean

\* What is appended for a word that is not in the dictionary.
missResult(w, clean) == w

translate(d, s) ==
    LET ws == Fields(s)
    IN  JoinSpace([i \in 1..Len(ws) |->
                     IF cleanWord(ws[i]) \in DOMAIN d
                     THEN d[cleanWord(ws[i])]
                     ELSE missResult(ws[i], cleanWord(ws[i]))])

(***************************************************************************)
(* once.Do(f) of sync.Once, per calling goroutine p: the fast check of     *)
(* done, then under the mutex the second check, f, done = 1, unlock.       *)
(***************************************************************************)
\* Variant of slowRuns: done is not checked again under the mutex.
slowRunsUnchecked(done) == TRUE

\* Whether doSlow runs f, done being read under the mutex.
slowRuns(done) == done = 0

OnceDo(p) ==
    /\ tpc[p] = "once"
    /\ tpc' = [tpc EXCEPT ![p] = IF onceDone = 0 THEN "lock" ELSE "lookup"]
    /\ UNCHANGED <<dict, onceDone, onceM, loads, tin, tout, tearly>>
    /\ UNCHANGED cvars

OnceLock(p) ==
    /\ tpc[p] = "lock"
    /\ onceM = 0
    /\ onceM' = p
    /\ tpc' = [tpc EXCEPT ![p] = "slow"]
    /\ UNCHANGED <<dict, onceDone, loads, tin, tout, tearly>>
    /\ UNCHANGED cvars

\* The function given to once.Do: dict, _ = loadDictionary(r).
OnceSlow(p) ==
    /\ tpc[p] = "slow"
    /\ IF slowRuns(onceDone)
       THEN /\ dict' = loadDictionary(cmudict)
            /\ loads' = loads + 1
            /\ tpc' = [tpc EXCEPT ![p] = "store"]
       ELSE /\ tpc' = [tpc EXCEPT ![p] = "unlock"]
            /\ UNCHANGED <<dict, loads>>
    /\ UNCHANGED <<onceDone, onceM, tin, tout, tearly>>
    /\ UNCHANGED cvars

OnceStore(p) ==
    /\ tpc[p] = "store"
    /\ onceDone' = 1
    /\ tpc' = [tpc EXCEPT ![p] = "unlock"]
    /\ UNCHANGED <<dict, onceM, loads, tin, tout, tearly>>
    /\ UNCHANGED cvars

OnceUnlock(p) ==
    /\ tpc[p] = "unlock"
    /\ onceM' = 0
    /\ tpc' = [tpc EXCEPT ![p] = "lookup"]
    /\ UNCHANGED <<dict, onceDone, loads, tin, tout, tearly>>
    /\ UNCHANGED cvars

\* The rest of Transliterate: Fields, the lookups, Join, return.
Lookup(p) ==
    /\ tpc[p] = "lookup"
    /\ tout' = [tout EXCEPT ![p] = [out |-> translate(dict, tin[p]), err |-> "nil"]]
    /\ tearly' = [tearly EXCEPT ![p] = loads = 0]
    /\ tpc' = [tpc EXCEPT ![p] = "done"]
    /\ UNCHANGED <<dict, onceDone, onceM, loads, tin>>
    /\ UNCHANGED cvars

TNext ==
    \E p \in Procs :
        \/ OnceDo(p)
        \/ OnceLock(p)
        \/ OnceSlow(p)
        \/ OnceStore(p)
        \/ OnceUnlock(p)
        \/ Lookup(p)

\* The composer is not running.
ComposerIdle ==
    /\ word = <<>>
    /\ pos = 0
    /\ buf = <<>>
    /\ lmt = EmptyLmt
    /\ score = 0
    /\ prevScore = 0
    /\ pc = "idle"
    /\ iter = 0
    /\ last = [kind |-> "init", ch |-> 0, isTail |-> FALSE, wrote |-> FALSE,
               pre |-> EmptyLmt, preBuf |-> <<>>, cmp |-> 0]

\* The characters the arguments of Transliterate are drawn from:
\* "A", "b", space, tab, ".", the ideographic space U+3000 and U+00C9.
TChars == {65, 98, 32, 9, 46, 12288, 201}

InputsUpTo(n) == UNION {[1..k -> TChars] : k \in 0..n}

\* One call of Transliterate, on any argument up to MaxInput characters.
TInit ==
    /\ ComposerIdle
    /\ dict = <<>>
    /\ onceDone = 0
    /\ onceM = 0
    /\ loads = 0
    /\ tpc = [p \in Procs |-> IF p = 1 THEN "once" ELSE "idle"]
    /\ \E s \in InputsUpTo(MaxInput) :
          tin = [p \in Procs |-> IF p = 1 THEN s ELSE <<>>]
    /\ tout = [p \in Procs |-> NoResult]
    /\ tearly = [p \in Procs |-> FALSE]

TranslitSpec == TInit /\ [][TNext]_vars

\* NProcs concurrent calls of Transliterate, each on an argument of at most
\* one character.
ConcInit ==
    /\ ComposerIdle
    /\ dict = <<>>
    /\ onceDone = 0
    /\ onceM = 0
    /\ loads = 0
    /\ tpc = [p \in Procs |-> "once"]
    /\ tin \in [Procs -> InputsUpTo(1)]
    /\ tout = [p \in Procs |-> NoResult]
    /\ tearly = [p \in Procs |-> FALSE]

ConcSpec == ConcInit /\ [][TNext]_vars

(***************************************************************************)
(* Definitions used to state the properties.                               *)
(***************************************************************************)
\* The Unicode composition formula on a lead index (0..18), a vowel index
\* (0..20) and a tail index (0..27, 0 for none).
Precomposed(li, mi, ti) == 44032 + (li * 21 + mi) * 28 + ti

IsLeadJamo(c) == InSeq(CompatLeads, c)

IsTailJamo(c) == InSeq(CompatTails, c)

IsVowelJamo(c) == 12623 <= c /\ c <= 12643

LeadNo(c) == IndexIn(CompatLeads, c) - 1

VowelNo(c) == c - 12623

TailNo(c) == IF c = 0 THEN 0 ELSE IndexIn(CompatTails, c)

\* The word from index i on is a sequence of well-formed decomposed
\* syllables: lead, vowel, and optionally hyphen and tail.
RECURSIVE WellFormed(_, _)
WellFormed(w, i) ==
    IF i > Len(w) THEN TRUE
    ELSE IF i + 1 > Len(w) \/ ~IsLeadJamo(w[i]) \/ ~IsVowelJamo(w[i + 1])
         THEN FALSE
    ELSE IF i + 2 <= Len(w) /\ w[i + 2] = Hyphen
         THEN i + 3 <= Len(w) /\ IsTailJamo(w[i + 3]) /\ WellFormed(w, i + 4)
    ELSE WellFormed(w, i + 2)

\* The precomposed syllables of a well-formed word, in order.
RECURSIVE Expected(_, _)
Expected(w, i) ==
    IF i > Len(w) THEN <<>>
    ELSE IF i + 2 <= Len(w) /\ w[i + 2] = Hyphen
         THEN <<Precomposed(LeadNo(w[i]), VowelNo(w[i + 1]), TailNo(w[i + 3]))>>
              \o Expected(w, i + 4)
    ELSE <<Precomposed(LeadNo(w[i]), VowelNo(w[i + 1]), 0)>> \o Expected(w, i + 2)

NoHangul(w) == \A i \in 1..Len(w) : ~IsHangul(w[i])

AllSyllables(w) == \A i \in 1..Len(w) : IsSyllable(w[i])

NotHyphen(x) == x /= Hyphen

TailOnly(l) == l[lead] = 0 /\ l[medial] = 0 /\ l[tail] /= 0

(***************************************************************************)
(* C1. Round trip: when Compose has returned on a word that is a sequence  *)
(* of well-formed decomposed syllables, the output is exactly the          *)
(* precomposed syllables, one codepoint per syllable, in order; the        *)
(* package example gives U+C790 U+BAA8.                                    *)
(***************************************************************************)
C1_RoundTrip ==
    pc = "done" =>
        /\ WellFormed(word, 1) => buf = Expected(word, 1)
        /\ word = JamoExample => buf = <<51088, 47784>>

C1_Witness ==
    /\ pc = "done"
    /\ word = <<12596, 12623, Hyphen, 12593, 12615, 12641>>
    /\ buf = <<45209, 51004>>

(***************************************************************************)
(* C2. Idempotence on composed text: when Compose has returned on a word   *)
(* of precomposed syllables only, the output equals the word; a null-onset *)
(* syllable after another syllable is not merged into it.                  *)
(***************************************************************************)
C2_ComposedUnchanged ==
    pc = "done" /\ AllSyllables(word) => buf = word

C2_Witness ==
    /\ pc = "done"
    /\ word = <<44032, 50504, 50504>>
    /\ buf = word

(***************************************************************************)
(* C3 as stated: a word without any Hangul codepoint is returned exactly.  *)
(***************************************************************************)
C3_Original ==
    pc = "done" /\ NoHangul(word) => buf = word

(***************************************************************************)
(* C3 amended. Non-Hangul passthrough: when Compose has returned on a word *)
(* without any Hangul codepoint, the output is the word with its marker    *)
(* codepoints removed, so it equals the word exactly when the word holds   *)
(* no marker; nothing else is inserted or removed.                         *)
(***************************************************************************)
C3_PassThrough ==
    pc = "done" /\ NoHangul(word) =>
        /\ buf = SelectSeq(word, NotHyphen)
        /\ (\A i \in 1..Len(word) : word[i] /= Hyphen) => buf = word

C3_Witness ==
    /\ pc = "done"
    /\ word = <<98, 97, 97, 98>>
    /\ buf = word

(***************************************************************************)
(* C4. The marker is never echoed: in every state the output holds no      *)
(* hyphen, whatever followed the hyphen in the input.                      *)
(***************************************************************************)
C4_MarkerNeverEchoed ==
    \A i \in 1..Len(buf) : buf[i] /= Hyphen

C4_Witness ==
    /\ pc = "done"
    /\ word = <<Hyphen, 97, Hyphen, Hyphen>>
    /\ buf = <<97>>

C6_TailOrNewSyllable ==
    pc = "done" =>
        /\ \A l \in Consonants, m \in Vowels, t \in Consonants :
             word = <<l, m, Hyphen, t>>
             => buf = <<Precomposed(LeadNo(l), VowelNo(m), TailNo(t))>>
        /\ \A l \in ShortConsonants, m1 \in Vowels, m2 \in Vowels :
             word = <<l, m1, m2>>
             => buf = <<Precomposed(LeadNo(l), VowelNo(m1), 0),
                        Precomposed(11, VowelNo(m2), 0)>>

C6_Witness ==
    /\ pc = "done"
    /\ word = <<12593, 12623, 12641>>
    /\ buf = <<44032, 51004>>

(***************************************************************************)
(* C7. Bare-lead filling: for every lead consonant alone, the iteration    *)
(* that meets the end of the stream leaves the lead in the buffer, medial  *)
(* and tail empty and the output empty, and Compose returns the single     *)
(* syllable of that lead, the vowel U+3161 and no tail.                    *)
(***************************************************************************)
C7_BareLead ==
    \A c \in 12593..12622 :
        IsLeadJamo(c) /\ word = <<c>> =>
            /\ pc = "final" => lmt = [EmptyLmt EXCEPT ![lead] = c] /\ buf = <<>>
            /\ pc = "done" => buf = <<Precomposed(LeadNo(c), 18, 0)>>

C7_Witness ==
    /\ pc = "done"
    /\ word = <<12622>>
    /\ buf = <<55120>>
    /\ iter = 2

(***************************************************************************)
(* C8 as stated: the documented example composes to the six syllables      *)
(* U+D55C U+ADF8 U+B97C U+B77C U+C774 U+C988.                              *)
(***************************************************************************)
C8_Original ==
    pc = "done" /\ word = HangulizeExample
        => buf = <<54620, 44536, 47484, 46972, 51060, 51592>>

(***************************************************************************)
(* C8 amended. The documented example composes to the five syllables       *)
(* U+D55C U+AE00 U+B77C U+C774 U+C988: the marked tail U+3139 closes the   *)
(* second syllable.                                                        *)
(***************************************************************************)
C8_Example ==
    pc = "done" /\ word = HangulizeExample
        => buf = <<54620, 44544, 46972, 51060, 51592>>

C8_Witness ==
    /\ pc = "done"
    /\ word = HangulizeExample
    /\ Len(buf) = 5

(***************************************************************************)
(* C9. Termination: every call of Compose reaches its return; the          *)
(* iteration that meets the end of the stream never takes the smart-attach *)
(* continue, and the loop runs at most once per codepoint and once more.   *)
(***************************************************************************)
C9_Terminates ==
    /\ [](pc = "loop" /\ read.err => ~attaches(read))
    /\ [](iter <= Len(word) + 1)
    /\ <>(pc = "done")

C9_Witness ==
    /\ pc = "done"
    /\ word = <<12593, Hyphen>>
    /\ last.kind = "final"
    /\ iter = 2

(***************************************************************************)
(* C10 as stated: a buffer that is flushed is empty or has its lead or     *)
(* medial set, and a buffer holding only a tail is never reached.          *)
(***************************************************************************)
C10_Original ==
    /\ last.wrote => (last.pre = EmptyLmt \/ last.pre[lead] /= 0
                      \/ last.pre[medial] /= 0)
    /\ ~TailOnly(lmt)

(***************************************************************************)
(* C10 amended. A buffer holding only a tail arises exactly by a marked    *)
(* consonant stored into an empty or just-flushed buffer; when such a      *)
(* buffer is flushed one codepoint is written: the syllable of the         *)
(* null-onset lead U+3147, the vowel U+3161 and that tail when the         *)
(* consonant is a tail consonant, U+FFFD when it is one of the lead-only   *)
(* U+3138, U+3143, U+3149.  Every other flushed buffer is empty or has its *)
(* lead or medial set.                                                     *)
(***************************************************************************)
C10_FlushedBuffer ==
    /\ TailOnly(lmt) /\ last.kind /= "eof"
       => /\ last.kind = "jamo"
          /\ last.isTail
          /\ IsJaeum(last.ch)
          /\ lmt[tail] = last.ch
          /\ last.wrote \/ last.pre = EmptyLmt
    /\ last.wrote /\ TailOnly(last.pre)
       => /\ Len(buf) > Len(last.preBuf)
          /\ buf[Len(last.preBuf) + 1] =
                IF IsTailJamo(last.pre[tail])
                THEN Precomposed(11, 18, TailNo(last.pre[tail]))
                ELSE 65533
    /\ last.wrote /\ ~TailOnly(last.pre)
       => (last.pre = EmptyLmt \/ last.pre[lead] /= 0 \/ last.pre[medial] /= 0)

C10_Witness ==
    /\ pc = "done"
    /\ word = <<Hyphen, 12593>>
    /\ last.wrote
    /\ TailOnly(last.pre)
    /\ buf = <<51005>>

(***************************************************************************)
(* Further definitions used to state the properties.                       *)
(***************************************************************************)
\* Every set slot of the buffer holds a Jamo of that position.
ValidSlots(l) ==
    /\ l[lead] = 0 \/ leadIdx(l[lead]) >= 0
    /\ l[medial] = 0 \/ medialIdx(l[medial]) >= 0
    /\ tailIdx(l[tail]) >= 0

\* The syllable of exactly the components of a non-empty buffer: missing
\* lead U+3147, missing medial U+3161.
ComponentSyllable(l) ==
    Precomposed(IF l[lead] = 0 THEN 11 ELSE leadIdx(l[lead]),
                IF l[medial] = 0 THEN 18 ELSE medialIdx(l[medial]),
                tailIdx(l[tail]))

\* The codepoint write makes of a non-empty buffer: the syllable of its
\* components, or U+FFFD when a slot holds a Jamo that is not of its position.
SyllableOf(l) == IF ValidSlots(l) THEN ComponentSyllable(l) ELSE 65533

\* The output after a call of write on buffer l and output b.
Flushed(b, l) == IF l = EmptyLmt THEN b ELSE Append(b, SyllableOf(l))

\* The buffer was loaded from a composed syllable: its lead is a conjoining
\* Jamo.
FromComposed(l) == 4352 <= l[lead] /\ l[lead] <= 4370

\* A precomposed syllable whose lead is the null onset.
NullOnset(c) == IsSyllable(c) /\ (c - 44032) \div 588 = 11

IsPassOut(x) == ~IsHangul(x)

IsPassIn(x) == ~IsHangul(x) /\ x /= Hyphen

\* The previous iteration appended a non-Hangul character: the output ends
\* with one and nothing has been buffered since.
AfterNonHangul(b, l) ==
    l = EmptyLmt /\ Len(b) > 0 /\ ~IsHangul(b[Len(b)])

(***************************************************************************)
(* C12. After a composed syllable has been processed the score is tail,    *)
(* and a decomposed Jamo of any role that meets the buffer loaded from a   *)
(* composed syllable is compared with tail and makes the buffer be written *)
(* before it is stored.                                                    *)
(***************************************************************************)
C12_ComposedScoreIsTail ==
    /\ last.kind = "composed" => score = tail
    /\ last.kind = "jamo" /\ FromComposed(last.pre)
       => /\ last.cmp = tail
          /\ last.wrote
          /\ buf = Append(last.preBuf, SyllableOf(last.pre))
          /\ lmt = [EmptyLmt EXCEPT ![score] = last.ch]

C12_Witness ==
    /\ word = <<50504, Hyphen, 12593>>
    /\ last.kind = "jamo"
    /\ last.isTail
    /\ FromComposed(last.pre)
    /\ buf = <<50504>>

(***************************************************************************)
(* C13 as stated. Smart-attach frame: when the buffer holds a lead and no  *)
(* medial and the incoming codepoint is a composed syllable with the       *)
(* null-onset lead, the step sets medial and tail from the syllable and    *)
(* leaves the lead and the output unchanged; lead U+3131 followed by       *)
(* U+C548 composes to the single syllable U+AC04.                          *)
(***************************************************************************)
C13_SmartAttachFrame ==
    /\ (/\ last.kind \in {"attach", "composed"}
        /\ NullOnset(last.ch)
        /\ last.pre[lead] /= 0
        /\ last.pre[medial] = 0)
       => /\ buf = last.preBuf
          /\ lmt[lead] = last.pre[lead]
          /\ medialIdx(lmt[medial]) = ((last.ch - 44032) \div 28) % 21
          /\ tailIdx(lmt[tail]) = (last.ch - 44032) % 28
    /\ pc = "done" /\ word = <<12593, 50504>> => buf = <<44036>>

(***************************************************************************)
(* C14 as stated. After a non-Hangul codepoint has been processed the      *)
(* score the next iteration takes as prevScore is -1, and a non-Hangul     *)
(* codepoint that directly follows another one does not call write.        *)
(***************************************************************************)
C14_SentinelCarried ==
    /\ last.kind = "nonhangul" => score = -1
    /\ last.kind = "nonhangul" /\ AfterNonHangul(last.preBuf, last.pre)
       => ~last.wrote

(***************************************************************************)
(* C15. Flush decision for a decomposed Jamo: the score is 1 for a vowel,  *)
(* 2 for a marked consonant, 0 for an unmarked consonant; write is called  *)
(* before the Jamo is stored exactly when score <= prevScore and not       *)
(* (score is tail, prevScore is medial, tail slot empty); otherwise the    *)
(* buffer is kept; the Jamo is stored in the slot named by its score.      *)
(***************************************************************************)
C15_FlushDecision ==
    last.kind = "jamo" =>
        /\ score = IF IsMoeum(last.ch) THEN 1 ELSE IF last.isTail THEN 2 ELSE 0
        /\ last.wrote <=>
             /\ score <= last.cmp
             /\ ~(score = 2 /\ last.cmp = 1 /\ last.pre[tail] = 0)
        /\ score > last.cmp => ~last.wrote
        /\ last.wrote
           => /\ buf = Flushed(last.preBuf, last.pre)
              /\ lmt = [EmptyLmt EXCEPT ![score] = last.ch]
        /\ ~last.wrote
           => /\ buf = last.preBuf
              /\ lmt = [last.pre EXCEPT ![score] = last.ch]

C15_Witness ==
    /\ word = <<12593, Hyphen, 12623>>
    /\ last.kind = "jamo"
    /\ last.ch = 12623
    /\ last.isTail
    /\ score = 1
    /\ ~last.wrote

C17_PassThroughOrder ==
    /\ pc = "done" => SelectSeq(buf, IsPassOut) = SelectSeq(word, IsPassIn)
    /\ last.kind = "nonhangul"
       => /\ lmt = EmptyLmt
          /\ buf = Append(Flushed(last.preBuf, last.pre), last.ch)

(***************************************************************************)
(* C18 as stated. No buffered component is lost: a slot that is written    *)
(* (by a decomposed Jamo, by the load of a composed syllable or by a       *)
(* merge) is empty at that moment, and every write of a non-empty buffer   *)
(* puts the syllable of exactly its components into the output; lead,      *)
(* marked tail and then a null-onset syllable keeps the buffered tail.     *)
(***************************************************************************)
C18_NoComponentLost ==
    /\ last.kind = "jamo" => last.wrote \/ last.pre[score] = 0
    /\ last.kind = "composed"
       => last.wrote \/ (last.pre[medial] = 0 /\ last.pre[tail] = 0)
    /\ last.kind = "attach" => last.pre[medial] = 0 /\ last.pre[tail] = 0
    /\ last.wrote /\ last.pre /= EmptyLmt
       => /\ Len(buf) > Len(last.preBuf)
          /\ IsSyllable(buf[Len(last.preBuf) + 1])
          /\ buf[Len(last.preBuf) + 1] = ComponentSyllable(last.pre)
          /\ SubSeq(buf, 1, Len(last.preBuf)) = last.preBuf
    /\ pc = "done" /\ word = <<12593, Hyphen, 12615, 50504>>
       => buf = <<44557, 50504>>

(***************************************************************************)
(* Definitions used to state the properties of package english.            *)
(***************************************************************************)
\* No word of s, cleaned, is a key of the loaded dictionary.
AllMiss(s) ==
    \A i \in 1..Len(Fields(s)) :
        ToLower(Trim(Fields(s)[i])) \notin DOMAIN loadDictionary(cmudict)

\* s has no leading, trailing or repeated whitespace, and no whitespace other
\* than the space.
SingleSpaced(s) ==
    /\ \A i \in 1..Len(s) : IsSpace(s[i]) => s[i] = 32
    /\ s /= <<>> => ~IsSpace(s[1]) /\ ~IsSpace(s[Len(s)])
    /\ \A i \in 1..(Len(s) - 1) : ~(IsSpace(s[i]) /\ IsSpace(s[i + 1]))

\* s with every run of whitespace replaced by one space and the runs at both
\* ends removed.
RECURSIVE CollapsedFrom(_, _, _)
CollapsedFrom(s, i, started) ==
    IF i > Len(s) THEN <<>>
    ELSE IF IsSpace(s[i])
         THEN IF started /\ (\E j \in (i + 1)..Len(s) : ~IsSpace(s[j]))
                 /\ ~IsSpace(s[i + 1])
              THEN <<32>> \o CollapsedFrom(s, i + 1, started)
              ELSE CollapsedFrom(s, i + 1, started)
    ELSE <<s[i]>> \o CollapsedFrom(s, i + 1, TRUE)

Collapsed(s) == CollapsedFrom(s, 1, FALSE)

(***************************************************************************)
(* C11 as stated. Dictionary miss passthrough: a call whose argument has   *)
(* no word in the dictionary returns the argument unchanged and a nil      *)
(* error.                                                                  *)
(***************************************************************************)
C11_Original ==
    \A p \in Procs :
        tpc[p] = "done" /\ AllMiss(tin[p])
            => tout[p] = [out |-> tin[p], err |-> "nil"]

(***************************************************************************)
(* C11 amended. A call whose argument has no word in the dictionary        *)
(* returns a nil error and the argument with every run of whitespace       *)
(* replaced by one space and leading and trailing whitespace removed; the  *)
(* argument is returned unchanged when its words are separated by single   *)
(* spaces and it has no leading or trailing whitespace.                    *)
(***************************************************************************)
C11_MissPassThrough ==
    \A p \in Procs :
        tpc[p] = "done" /\ AllMiss(tin[p])
            => /\ tout[p].err = "nil"
               /\ tout[p].out = Collapsed(tin[p])
               /\ SingleSpaced(tin[p]) => tout[p].out = tin[p]

C11_Witness ==
    /\ tpc[1] = "done"
    /\ tin[1] = <<98, 32, 46>>
    /\ tout[1] = [out |-> <<98, 32, 46>>, err |-> "nil"]

(***************************************************************************)
(* C19. Under every interleaving of concurrent calls of Transliterate the  *)
(* dictionary is assigned at most once, exactly once as soon as any call   *)
(* has passed once.Do, and no call runs its lookups before that assignment *)
(* and the store of done.                                                  *)
(***************************************************************************)
C19_LoadedOnce ==
    /\ loads <= 1
    /\ \A p \in Procs :
        /\ tpc[p] \in {"lookup", "done"}
           => loads = 1 /\ onceDone = 1 /\ dict = loadDictionary(cmudict)
        /\ tpc[p] = "done" => ~tearly[p]

C19_Witness ==
    /\ \A p \in Procs : tpc[p] = "done"
    /\ loads = 1
    /\ tin[1] = <<65>>
    /\ tout[1].out = <<65, 72>>

====
